---- MODULE Spec2Model ----
(***************************************************************************)
(* A model of the wave-function-collapse engine of wfc-rust:               *)
(*   src/src/wfc/mod.rs   Tile, WfcRules, Wfc::new, Wfc::view, Wfc::step   *)
(*   src/src/wfc/view.rs  WfcView::row / col, Span, RowIter                *)
(*   src/src/main.rs      SudokuRules::get_states                          *)
(* Grid indices are 0-based as in the source; a TLA+ sequence is 1-based,  *)
(* so the tile at linear index idx is map[idx + 1].                        *)
(***************************************************************************)
EXTENDS Integers, Sequences, FiniteSets, TLC

VARIABLES
    phase,      \* "init" | "ready" | "rejected" (an assert of new failed) | "panicked"
    args,       \* the arguments new() was called with
    width,      \* Wfc.width
    height,     \* Wfc.height
    map,        \* Wfc.map, the row-major grid
    rules,      \* Wfc.rules, the rule set the engine was built with
    ret,        \* what the last step() returned: "Some" | "None" | "panic" ("none" before)
    exit,       \* the place where the last step() left
    preMap,     \* the grid at the entry of the last step()
    selected,   \* `selected` of the last step()
    tried,      \* the value the last step() committed at `selected`
    old,        \* `old` of the last step(): the rollback snapshot
    queried,    \* the indices get_states was called at, in call order
    returned,   \* history: the <<exit, ret>> pairs of the step() calls that left as solved or stuck
    observed,   \* the grids the get_states calls of the last step() read
    excluded,   \* history: the <<index, value>> pairs rolled back so far
    viewCall,   \* the last WfcView operation called
    viewOut     \* the tiles its span yields under row_iter()

vars == <<phase, args, width, height, map, rules, ret, exit, preMap, selected,
          tried, old, queried, returned, observed, excluded, viewCall, viewOut>>

stepVars == <<ret, exit, preMap, selected, tried, old, queried, returned, observed,
              excluded>>
viewVars == <<viewCall, viewOut>>

-----------------------------------------------------------------------------
(* Bounds of the model *)

\* the largest width and height handed to new()
MaxDim == 2
\* the largest number of tiles handed to new()
MaxCells == 4
\* the size of the value domain (9 digits in main.rs, scaled down)
NumStates == 2
\* the block of the rule set of main.rs (3 x 3 there, scaled down with the domain)
BlockW == 2
BlockH == 1
\* the largest width and height of the grids the view operations are applied to
MaxViewDim == 4
MaxSpanDim == 3
MaxNones == 2

Domain == 1..NumStates

Min(a, b) == IF a < b THEN a ELSE b

-----------------------------------------------------------------------------
(* Tile (mod.rs 20-23) *)

Definite(v) == [def |-> TRUE, val |-> v, states |-> {}]
Indefinite(S) == [def |-> FALSE, val |-> 0, states |-> S]

IsIndefinite(tile) == ~tile.def

-----------------------------------------------------------------------------
(* Span and RowIter (view.rs 134-199).  A span is a sequence of slices.    *)

\* &v[a..b]: the slice of the 0-based half-open range a..b
Slice(v, a, b) == SubSeq(v, a + 1, b)

\* v.chunks(n)
Chunks(v, n) ==
    [r \in 1..((Len(v) + n - 1) \div n) |-> Slice(v, (r - 1) * n, Min(r * n, Len(v)))]

\* RowIter::next when a new row starts again at its first tile
RowIterNext_RestartsAtZero(span, y, x) ==
    IF y < Len(span)
    THEN LET out == span[y + 1] IN
         IF x < Len(out)
         THEN [some |-> TRUE, item |-> <<out[x + 1]>>, y |-> y, x |-> x + 1]
         ELSE IF y + 1 < Len(span)
              THEN [some |-> TRUE, item |-> <<span[y + 2][1]>>, y |-> y + 1, x |-> 0]
              ELSE [some |-> FALSE, item |-> <<>>, y |-> y + 1, x |-> 0]
    ELSE [some |-> FALSE, item |-> <<>>, y |-> y, x |-> x]

\* RowIter::next on the iterator state (y, x): the item, if any, and the new state
RowIterNext(span, y, x) ==
    IF y < Len(span)
    THEN LET out == span[y + 1] IN
         IF x < Len(out)
         THEN [some |-> TRUE, item |-> <<out[x + 1]>>, y |-> y, x |-> x + 1]
         ELSE IF y + 1 < Len(span)
              THEN [some |-> TRUE, item |-> <<span[y + 2][1]>>, y |-> y + 1, x |-> 1]
              ELSE [some |-> FALSE, item |-> <<>>, y |-> y + 1, x |-> 1]
    ELSE [some |-> FALSE, item |-> <<>>, y |-> y, x |-> x]

RECURSIVE RowIterFrom(_, _, _)
RowIterFrom(span, y, x) ==
    LET n == RowIterNext(span, y, x) IN
    IF n.some THEN n.item \o RowIterFrom(span, n.y, n.x) ELSE <<>>

\* span.row_iter().collect()
RowIterCollect(span) == RowIterFrom(span, 0, 0)

\* Span::width: the length of the first slice, 0 without one
SpanWidth(span) == IF Len(span) = 0 THEN 0 ELSE Len(span[1])

\* Span::height: the number of slices
SpanHeight(span) == Len(span)

\* span.0[r][c] is inside the slices
InSpan(span, r, c) == r < Len(span) /\ c < Len(span[r + 1])

\* ColIter::next on the iterator state (x_idx, y_idx): the item, if any, the
\* new state, and panic when an index is out of range
ColIterNext(span, x_idx, y_idx) ==
    IF x_idx = SpanWidth(span) /\ y_idx = SpanHeight(span)
    THEN [panic |-> FALSE, some |-> FALSE, item |-> <<>>, x |-> x_idx, y |-> y_idx]
    ELSE IF y_idx = SpanHeight(span)
    THEN IF x_idx + 1 = SpanWidth(span)
         THEN [panic |-> FALSE, some |-> FALSE, item |-> <<>>, x |-> x_idx + 1, y |-> 1]
         ELSE IF InSpan(span, 0, x_idx + 1)
         THEN [panic |-> FALSE, some |-> TRUE, item |-> <<span[1][x_idx + 2]>>,
               x |-> x_idx + 1, y |-> 1]
         ELSE [panic |-> TRUE, some |-> FALSE, item |-> <<>>, x |-> x_idx + 1, y |-> 1]
    ELSE IF InSpan(span, y_idx, x_idx)
    THEN [panic |-> FALSE, some |-> TRUE, item |-> <<span[y_idx + 1][x_idx + 1]>>,
          x |-> x_idx, y |-> y_idx + 1]
    ELSE [panic |-> TRUE, some |-> FALSE, item |-> <<>>, x |-> x_idx, y |-> y_idx + 1]

-----------------------------------------------------------------------------
(* WfcView (view.rs 11-131) *)

\* Wfc::view: the position of the view at linear index idx
ViewPos(w, idx) == <<idx % w, idx \div w>>

\* WfcView::row: "assert" when the precondition fails, "oob" when the slice
\* reaches past the grid, else the span
ViewRow(m, w, h, row) ==
    IF ~(row < h) THEN [fail |-> "assert", span |-> <<>>]
    ELSE LET idx == row * w IN
         IF idx + h > Len(m) THEN [fail |-> "oob", span |-> <<>>]
         ELSE [fail |-> "", span |-> <<Slice(m, idx, idx + h)>>]

\* WfcView::col
ViewCol(m, w, h, col) ==
    IF ~(col < w) THEN [fail |-> "assert", span |-> <<>>]
    ELSE LET chunks == Chunks(m, w) IN
         [fail |-> "",
          span |-> [r \in 1..Len(chunks) |-> Slice(chunks[r], col, col + 1)]]

\* Range::len of a..b
RangeLen(a, b) == IF b > a THEN b - a ELSE 0

\* chunks(width).take(y1).skip(y0)
TakeSkip(chunks, y0, y1) ==
    LET taken == SubSeq(chunks, 1, Min(y1, Len(chunks)))
    IN  SubSeq(taken, y0 + 1, Len(taken))

\* WfcView::span(x0..x1, y0..y1): after the asserts every slice lies inside
\* its chunk of width tiles
ViewSpan(m, w, h, x0, x1, y0, y1) ==
    IF RangeLen(x0, x1) = 0 \/ RangeLen(y0, y1) = 0 \/ ~(x1 < w) \/ ~(y1 < h)
    THEN [fail |-> "assert", span |-> <<>>]
    ELSE LET rows == TakeSkip(Chunks(m, w), y0, y1)
         IN  [fail |-> "", span |-> [r \in 1..Len(rows) |-> Slice(rows[r], x0, x1)]]

\* WfcView::row_span(row, x0..x1)
ViewRowSpan(m, w, h, row, x0, x1) ==
    IF ~(row < h) \/ RangeLen(x0, x1) = 0 \/ ~(x1 < w)
    THEN [fail |-> "assert", span |-> <<>>]
    ELSE [fail |-> "", span |-> <<Slice(m, row * w + x0, row * w + x1)>>]

\* WfcView::col_span(col, y0..y1)
ViewColSpan(m, w, h, col, y0, y1) ==
    IF ~(col < w) \/ RangeLen(y0, y1) = 0 \/ ~(y1 < h)
    THEN [fail |-> "assert", span |-> <<>>]
    ELSE LET rows == TakeSkip(Chunks(m, w), y0, y1)
         IN  [fail |-> "", span |-> [r \in 1..Len(rows) |-> Slice(rows[r], col, col + 1)]]

\* WfcView::get_at(row, col): the tile at row * width + col, "oob" when that
\* index is past the grid
ViewGetAt(m, w, row, col) ==
    IF row * w + col < Len(m)
    THEN [fail |-> "", tiles |-> <<m[row * w + col + 1]>>]
    ELSE [fail |-> "oob", tiles |-> <<>>]

\* WfcView::get: let (row, col) = self.pos; self.get_at(row, col)
ViewGet(m, w, pos) == ViewGetAt(m, w, pos[1], pos[2])

-----------------------------------------------------------------------------
(* The accessors main.rs calls on its view: row(), col() without argument  *)
(* and section_at(bw, bh, x, y).  view.rs does not define them.            *)

PosRow(m, w, h, pos) == <<Slice(m, pos[2] * w, pos[2] * w + w)>>

PosCol(m, w, h, pos) == [r \in 1..h |-> <<m[(r - 1) * w + pos[1] + 1]>>]

SectionAt(m, w, h, bw, bh, x, y) ==
    LET x0 == (x \div bw) * bw
        y0 == (y \div bh) * bh
        x1 == Min(x0 + bw, w)
        y1 == Min(y0 + bh, h)
    IN  [r \in 1..(y1 - y0) |-> Slice(m, (y0 + r - 1) * w + x0, (y0 + r - 1) * w + x1)]

-----------------------------------------------------------------------------
(* Rule sets (mod.rs 26-33, main.rs 59-84, view.rs 236-240) *)

\* the inner fn states of SudokuRules::get_states: the values of the Definite tiles
DefiniteStates(tiles) == {tiles[k].val : k \in {j \in 1..Len(tiles) : tiles[j].def}}

\* SudokuRules::get_states
SudokuGetStates(m, w, h, pos) ==
    LET row_states == DefiniteStates(RowIterCollect(PosRow(m, w, h, pos)))
        col_states == DefiniteStates(RowIterCollect(PosCol(m, w, h, pos)))
        block_states == DefiniteStates(
            RowIterCollect(SectionAt(m, w, h, BlockW, BlockH, pos[1], pos[2])))
    IN  Domain \ (row_states \cup col_states \cup block_states)

\* the rule set S of the tests of view.rs: the same set whatever the view
ConstGetStates(r) == r.set

\* a rule set that looks at map.pos() only: every value at (0, 0), none at any
\* other position
CornerGetStates(pos) == IF pos = <<0, 0>> THEN Domain ELSE {}

\* WfcRules::get_states at the view of linear index idx
GetStates(r, m, w, h, idx) ==
    IF r.kind = "sudoku" THEN SudokuGetStates(m, w, h, ViewPos(w, idx))
    ELSE IF r.kind = "corner" THEN CornerGetStates(ViewPos(w, idx))
    ELSE ConstGetStates(r)

\* WfcRules::entropy: 0.0 by default; an overriding rule set scores a tile by
\* the number of its candidates
Entropy(r, tile) == IF r.entropy = "default" THEN 0 ELSE Cardinality(tile.states)

\* the sets a constant rule set returns: none, one value, every value
ConstSets == {{}, {1}, Domain}

RuleSets ==
    [kind : {"sudoku"}, set : {{}}, entropy : {"default", "len"}]
    \cup [kind : {"const"}, set : ConstSets, entropy : {"default", "len"}]

\* rule sets whose answer depends on the position alone
OpenRuleSets == [kind : {"corner"}, set : {{}}, entropy : {"default", "len"}]

-----------------------------------------------------------------------------
(* Wfc::new (mod.rs 46-57) *)

\* new without its first assert
NewAccepts_NoWidthAssert(w, h, tiles) == h > 0 /\ Len(tiles) = w * h

\* the three asserts of new
NewAccepts(w, h, tiles) == w > 0 /\ h > 0 /\ Len(tiles) = w * h

\* the tiles a caller seeds a grid with: a known value or the full domain
SeedTiles == {Definite(v) : v \in Domain} \cup {Indefinite(Domain)}

SeedGrids == UNION {[1..n -> SeedTiles] : n \in 0..MaxCells}

-----------------------------------------------------------------------------
(* Wfc::step (mod.rs 117-206) *)

\* the scores without the filter: every tile of the grid is scored
Scored_NoFilter(r, m) == [k \in 1..Len(m) |-> <<k - 1, Entropy(r, m[k])>>]

\* self.map.iter().filter(Indefinite).map(entropy).enumerate(): the k-th
\* Indefinite tile of the grid is numbered k, counted from 0
Scored(r, m) ==
    LET f == SelectSeq(m, IsIndefinite)
    IN  [k \in 1..Len(f) |-> <<k - 1, Entropy(r, f[k])>>]

\* the place of pair p in the sorted prefix s: after every pair that is not greater
RECURSIVE InsertSorted(_, _)
InsertSorted(s, p) ==
    IF s = <<>> THEN <<p>>
    ELSE IF s[Len(s)][2] <= p[2] THEN Append(s, p)
    ELSE Append(InsertSorted(SubSeq(s, 1, Len(s) - 1), p), s[Len(s)])

\* map.sort_by(partial_cmp on the score): a stable sort
RECURSIVE SortByEntropy(_)
SortByEntropy(s) ==
    IF s = <<>> THEN <<>>
    ELSE InsertSorted(SortByEntropy(SubSeq(s, 1, Len(s) - 1)), s[Len(s)])

EntropyMap(r, m) == SortByEntropy(Scored(r, m))

\* next_highest: iter.position(e != highest) on the iterator that has already
\* yielded the first pair; -1 stands for None
NextHighest(em) ==
    LET differ == {k \in 2..Len(em) : em[k][2] # em[1][2]}
    IN  IF differ = {} THEN -1
        ELSE (CHOOSE k \in differ : \A j \in differ : k <= j) - 2

\* the slice one pair is chosen from: entropy_map[0..next_highest] or entropy_map
Pool(em) ==
    IF NextHighest(em) = -1 THEN em ELSE SubSeq(em, 1, NextHighest(em))

\* replace(&mut self.map[selected], Tile::Definite(state))
Commit(m, sel, v) == [m EXCEPT ![sel + 1] = Definite(v)]

\* old when the committed candidate is not removed from it
Snapshot_KeepsValue(tile, v) == tile.states

\* old: the candidates of the selected tile without the committed one
Snapshot(tile, v) == tile.states \ {v}

\* the tile written when a set of two candidates is forced to one of them
NewTile_ForcesPairs(states) ==
    IF Cardinality(states) <= 2
    THEN Definite(CHOOSE s \in states : \A t \in states : s <= t)
    ELSE Indefinite(states)

\* the tile written for a recomputed set (the set is never empty here)
NewTile(states) ==
    IF Cardinality(states) = 1 THEN Definite(CHOOSE s \in states : TRUE)
    ELSE Indefinite(states)

\* the grid the later queries read when each recomputed set is written at once
AfterQuery_WritesAtOnce(m, idx, collapsed) == [m EXCEPT ![idx + 1] = NewTile(collapsed)]

\* the grid the queries after the one at idx read: self.map, which the query
\* loop does not write
AfterQuery(m, idx, collapsed) == m

\* the query loop from position k of entropy_map on: valid, the pushed
\* (idx, collapsed) pairs, the indices queried and the grids the queries read
RECURSIVE Propagate(_, _, _, _, _, _, _)
Propagate(r, m, w, h, em, k, sel) ==
    IF k > Len(em) THEN [valid |-> TRUE, states |-> <<>>, queried |-> <<>>, seen |-> {}]
    ELSE LET idx == em[k][1] IN
         IF idx = sel THEN Propagate(r, m, w, h, em, k + 1, sel)
         ELSE LET collapsed == GetStates(r, m, w, h, idx) IN
              IF collapsed = {}
              THEN [valid |-> FALSE, states |-> <<>>, queried |-> <<idx>>, seen |-> {m}]
              ELSE LET rest == Propagate(r, AfterQuery(m, idx, collapsed), w, h, em,
                                         k + 1, sel)
                   IN  [valid |-> rest.valid,
                        states |-> <<<<idx, collapsed>>>> \o rest.states,
                        queried |-> <<idx>> \o rest.queried,
                        seen |-> {m} \cup rest.seen]

\* for (idx, states) in states { self.map[idx] = tile }
RECURSIVE WriteStates(_, _)
WriteStates(m, states) ==
    IF states = <<>> THEN m
    ELSE WriteStates([m EXCEPT ![states[1][1] + 1] = NewTile(states[1][2])],
                     SubSeq(states, 2, Len(states)))

\* the rest of step() once `selected` and the committed value are drawn
Resolve(r, m, w, h, em, sel, v) ==
    LET snapshot == Snapshot(m[sel + 1], v)
        committed == Commit(m, sel, v)
        p == Propagate(r, committed, w, h, em, 1, sel)
    IN  IF ~p.valid /\ snapshot = {}
        THEN [ret |-> "None", exit |-> "stuck", map |-> committed,
              old |-> snapshot, queried |-> p.queried, seen |-> p.seen]
        ELSE IF ~p.valid
        THEN [ret |-> "Some", exit |-> "rollback",
              map |-> WriteStates([committed EXCEPT ![sel + 1] = Indefinite(snapshot)],
                                  p.states),
              old |-> snapshot, queried |-> p.queried, seen |-> p.seen]
        ELSE [ret |-> "Some", exit |-> "ok", map |-> WriteStates(committed, p.states),
              old |-> snapshot, queried |-> p.queried, seen |-> p.seen]

\* what a step() call leaves behind
Leave(r, e, m, sel, v, snapshot, q, seen) ==
    /\ ret' = r
    /\ exit' = e
    /\ map' = m
    /\ preMap' = map
    /\ selected' = sel
    /\ tried' = v
    /\ old' = snapshot
    /\ queried' = q
    /\ returned' = IF e \in {"solved", "stuck"} THEN returned \cup {<<e, r>>} ELSE returned
    /\ observed' = seen
    /\ excluded' = IF e = "rollback" THEN excluded \cup {<<sel, v>>} ELSE excluded
    /\ phase' = IF r = "panic" THEN "panicked" ELSE "ready"
    /\ UNCHANGED <<args, width, height, rules, viewCall, viewOut>>

-----------------------------------------------------------------------------
(* Actions *)

\* Wfc::new with any arguments
New ==
    /\ phase = "init"
    /\ \E w \in 0..MaxDim, h \in 0..MaxDim, tiles \in SeedGrids :
        /\ args' = [width |-> w, height |-> h, tiles |-> tiles]
        /\ IF NewAccepts(w, h, tiles)
           THEN /\ phase' = "ready"
                /\ width' = w
                /\ height' = h
                /\ map' = tiles
                /\ rules' \in RuleSets
           ELSE /\ phase' = "rejected"
                /\ UNCHANGED <<width, height, map, rules>>
    /\ UNCHANGED <<stepVars, viewVars>>

\* step() on a grid without Indefinite tile (mod.rs 130-132)
StepSolved ==
    /\ phase = "ready"
    /\ EntropyMap(rules, map) = <<>>
    /\ Leave("None", "solved", map, -1, 0, {}, <<>>, {})

\* step() when the slice to choose from is empty: expect("No states left!")
StepNoPool ==
    /\ phase = "ready"
    /\ EntropyMap(rules, map) # <<>>
    /\ Pool(EntropyMap(rules, map)) = <<>>
    /\ Leave("panic", "expect", map, -1, 0, {}, <<>>, {})

\* step() drawing the pick-th pair of the pool and the value v
StepCollapse(pick, v) ==
    /\ phase = "ready"
    /\ LET em == EntropyMap(rules, map)
           pool == Pool(em)
       IN  /\ pick < Len(pool)
           /\ LET sel == pool[pick + 1][1] IN
              IF map[sel + 1].def
              THEN \* as_indefinite on a Definite tile
                   /\ v = 1
                   /\ Leave("panic", "as_indefinite", map, sel, 0, {}, <<>>, {})
              ELSE IF map[sel + 1].states = {}
              THEN \* gen_range on an empty range
                   /\ v = 1
                   /\ Leave("panic", "gen_range", map, sel, 0, {}, <<>>, {})
              ELSE /\ v \in map[sel + 1].states
                   /\ LET res == Resolve(rules, map, width, height, em, sel, v)
                      IN  Leave(res.ret, res.exit, res.map, sel, v, res.old, res.queried,
                                res.seen)

Step ==
    \/ StepSolved
    \/ StepNoPool
    \/ \E pick \in 0..(MaxCells - 1), v \in Domain : StepCollapse(pick, v)

Init ==
    /\ phase = "init"
    /\ args = [width |-> 0, height |-> 0, tiles |-> <<>>]
    /\ width = 0
    /\ height = 0
    /\ map = <<>>
    /\ rules = [kind |-> "const", set |-> {}, entropy |-> "default"]
    /\ ret = "none"
    /\ exit = "none"
    /\ preMap = <<>>
    /\ selected = -1
    /\ tried = 0
    /\ old = {}
    /\ queried = <<>>
    /\ returned = {}
    /\ observed = {}
    /\ excluded = {}
    /\ viewCall = [op |-> "none", arg |-> 0]
    /\ viewOut = [fail |-> "", tiles |-> <<>>]

Next == New \/ Step

Spec == Init /\ [][Next]_vars

\* Wfc::new with a rule set of OpenRuleSets
NewOpen ==
    /\ phase = "init"
    /\ \E w \in 0..MaxDim, h \in 0..MaxDim, tiles \in SeedGrids :
        /\ args' = [width |-> w, height |-> h, tiles |-> tiles]
        /\ IF NewAccepts(w, h, tiles)
           THEN /\ phase' = "ready"
                /\ width' = w
                /\ height' = h
                /\ map' = tiles
                /\ rules' \in OpenRuleSets
           ELSE /\ phase' = "rejected"
                /\ UNCHANGED <<width, height, map, rules>>
    /\ UNCHANGED <<stepVars, viewVars>>

NextOpen == NewOpen \/ Step

\* the engine under rule sets that are not monotone in the grid
SpecOpen == Init /\ [][NextOpen]_vars

-----------------------------------------------------------------------------
(* The view operations on a grid of numbered Definite tiles, as the tests  *)
(* of view.rs build it (view.rs 242-244)                                   *)

NumberedGrid(w, h) == [k \in 1..(w * h) |-> Definite(k - 1)]

\* the tiles a span yields under row_iter(), or the failure of the call
Yield(s) ==
    [fail |-> s.fail, tiles |-> IF s.fail = "" THEN RowIterCollect(s.span) ELSE <<>>]

InitView ==
    /\ phase = "ready"
    /\ width \in 1..MaxViewDim
    /\ height \in 1..MaxViewDim
    /\ map = NumberedGrid(width, height)
    /\ args = [width |-> width, height |-> height, tiles |-> map]
    /\ rules = [kind |-> "const", set |-> {}, entropy |-> "default"]
    /\ ret = "none"
    /\ exit = "none"
    /\ preMap = <<>>
    /\ selected = -1
    /\ tried = 0
    /\ old = {}
    /\ queried = <<>>
    /\ returned = {}
    /\ observed = {}
    /\ excluded = {}
    /\ viewCall = [op |-> "none", arg |-> 0]
    /\ viewOut = [fail |-> "", tiles |-> <<>>]

\* view.row(row).row_iter()
RowCall ==
    \E row \in 0..MaxViewDim :
        /\ viewCall' = [op |-> "row", arg |-> row]
        /\ viewOut' = Yield(ViewRow(map, width, height, row))
        /\ UNCHANGED <<phase, args, width, height, map, rules, stepVars>>

\* view.col(col).row_iter()
ColCall ==
    \E col \in 0..MaxViewDim :
        /\ viewCall' = [op |-> "col", arg |-> col]
        /\ viewOut' = Yield(ViewCol(map, width, height, col))
        /\ UNCHANGED <<phase, args, width, height, map, rules, stepVars>>

NextView == RowCall \/ ColCall

SpecView == InitView /\ [][NextView]_vars

-----------------------------------------------------------------------------
(* Spans, their iterators and get() on a numbered grid *)

NoIter == [it |-> "none", tiles |-> <<>>, nones |-> 0]

\* what a view call leaves: its failure or its span, no iterator yet
Built(s) ==
    [fail |-> s.fail, span |-> s.span, pos |-> <<0, 0>>, it |-> "none", x |-> 0, y |-> 0,
     tiles |-> <<>>, nones |-> 0, panic |-> FALSE, prev |-> NoIter]

InitSpan ==
    /\ phase = "ready"
    /\ width \in 1..MaxSpanDim
    /\ height \in 1..MaxSpanDim
    /\ map = NumberedGrid(width, height)
    /\ args = [width |-> width, height |-> height, tiles |-> map]
    /\ rules = [kind |-> "const", set |-> {}, entropy |-> "default"]
    /\ ret = "none"
    /\ exit = "none"
    /\ preMap = <<>>
    /\ selected = -1
    /\ tried = 0
    /\ old = {}
    /\ queried = <<>>
    /\ returned = {}
    /\ observed = {}
    /\ excluded = {}
    /\ viewCall = [op |-> "none", at |-> 0, x0 |-> 0, x1 |-> 0, y0 |-> 0, y1 |-> 0]
    /\ viewOut = Built([fail |-> "", span |-> <<>>])

\* view.span(x0..x1, y0..y1)
CallSpan ==
    /\ viewCall.op = "none"
    /\ \E x0 \in 0..MaxSpanDim, x1 \in 0..MaxSpanDim,
          y0 \in 0..MaxSpanDim, y1 \in 0..MaxSpanDim :
        /\ viewCall' = [op |-> "span", at |-> 0, x0 |-> x0, x1 |-> x1, y0 |-> y0, y1 |-> y1]
        /\ viewOut' = Built(ViewSpan(map, width, height, x0, x1, y0, y1))
    /\ UNCHANGED <<phase, args, width, height, map, rules, stepVars>>

\* view.row_span(row, x0..x1)
CallRowSpan ==
    /\ viewCall.op = "none"
    /\ \E row \in 0..MaxSpanDim, x0 \in 0..MaxSpanDim, x1 \in 0..MaxSpanDim :
        /\ viewCall' = [op |-> "row_span", at |-> row, x0 |-> x0, x1 |-> x1,
                        y0 |-> 0, y1 |-> 0]
        /\ viewOut' = Built(ViewRowSpan(map, width, height, row, x0, x1))
    /\ UNCHANGED <<phase, args, width, height, map, rules, stepVars>>

\* view.col_span(col, y0..y1)
CallColSpan ==
    /\ viewCall.op = "none"
    /\ \E col \in 0..MaxSpanDim, y0 \in 0..MaxSpanDim, y1 \in 0..MaxSpanDim :
        /\ viewCall' = [op |-> "col_span", at |-> col, x0 |-> 0, x1 |-> 0,
                        y0 |-> y0, y1 |-> y1]
        /\ viewOut' = Built(ViewColSpan(map, width, height, col, y0, y1))
    /\ UNCHANGED <<phase, args, width, height, map, rules, stepVars>>

\* wfc.view(idx).get() for an index of the grid
CallGet ==
    /\ viewCall.op = "none"
    /\ \E idx \in 0..(width * height - 1) :
        /\ viewCall' = [op |-> "get", at |-> idx, x0 |-> 0, x1 |-> 0, y0 |-> 0, y1 |-> 0]
        /\ viewOut' = [Built([fail |-> ViewGet(map, width, ViewPos(width, idx)).fail,
                              span |-> <<>>])
                         EXCEPT !.pos = ViewPos(width, idx),
                                !.tiles = ViewGet(map, width, ViewPos(width, idx)).tiles]
    /\ UNCHANGED <<phase, args, width, height, map, rules, stepVars>>

\* a span is held, no iterator is in use or the one in use has returned None
CanIterate ==
    /\ viewCall.op \in {"span", "row_span", "col_span"}
    /\ viewOut.fail = ""
    /\ ~viewOut.panic
    /\ viewOut.it = "none" \/ viewOut.nones >= 1

\* a new iterator of the given kind, the one before it remembered
Restart(kind) ==
    [viewOut EXCEPT !.it = kind, !.x = 0, !.y = 0, !.tiles = <<>>, !.nones = 0,
                    !.prev = [it |-> viewOut.it, tiles |-> viewOut.tiles,
                              nones |-> viewOut.nones]]

\* span.row_iter()
CallRowIter ==
    /\ CanIterate
    /\ viewOut' = Restart("row")
    /\ UNCHANGED <<phase, args, width, height, map, rules, stepVars, viewCall>>

\* span.col_iter()
CallColIter ==
    /\ CanIterate
    /\ viewOut' = Restart("col")
    /\ UNCHANGED <<phase, args, width, height, map, rules, stepVars, viewCall>>

\* next() on the row iterator in use
CallRowNext ==
    /\ viewOut.it = "row"
    /\ viewOut.nones < MaxNones
    /\ LET n == RowIterNext(viewOut.span, viewOut.y, viewOut.x)
       IN  viewOut' = [viewOut EXCEPT !.y = n.y, !.x = n.x,
                                      !.tiles = viewOut.tiles \o n.item,
                                      !.nones = IF n.some THEN @ ELSE @ + 1]
    /\ UNCHANGED <<phase, args, width, height, map, rules, stepVars, viewCall>>

\* next() on the column iterator in use
CallColNext ==
    /\ viewOut.it = "col"
    /\ ~viewOut.panic
    /\ viewOut.nones < MaxNones
    /\ LET n == ColIterNext(viewOut.span, viewOut.x, viewOut.y)
       IN  viewOut' = [viewOut EXCEPT !.y = n.y, !.x = n.x,
                                      !.tiles = viewOut.tiles \o n.item,
                                      !.nones = IF n.some \/ n.panic THEN @ ELSE @ + 1,
                                      !.panic = n.panic]
    /\ UNCHANGED <<phase, args, width, height, map, rules, stepVars, viewCall>>

NextSpan ==
    \/ CallSpan
    \/ CallRowSpan
    \/ CallColSpan
    \/ CallGet
    \/ CallRowIter
    \/ CallColIter
    \/ CallRowNext
    \/ CallColNext

SpecSpan == InitSpan /\ [][NextSpan]_vars

-----------------------------------------------------------------------------
(* Properties *)

\* a step() call has been made
Stepped == exit # "none"

AllDefinite(m) == \A i \in 1..Len(m) : m[i].def

\* C1: the value step() returns when no Indefinite tile remains differs from
\* the value it returns when a contradiction was raised and the rollback
\* snapshot is empty.
C1_SolvedDiffersFromStuck ==
    \A p \in returned, q \in returned :
        (p[1] = "solved" /\ q[1] = "stuck") => p[2] # q[2]

\* C2: a tile that is Definite(v) when a step() call starts is Definite(v)
\* when that call has ended.
C2_DefiniteIsFinal ==
    Stepped => \A i \in 1..Len(preMap) : preMap[i].def => map[i] = preMap[i]

\* C3: after a contradiction with a non-empty snapshot the selected tile is
\* Indefinite with the snapshot, its candidates before the step minus the tried
\* value, and every other tile is as it was before the step.
C3_RollbackWritesNothingElse ==
    exit = "rollback" =>
        /\ old = preMap[selected + 1].states \ {tried}
        /\ map = [preMap EXCEPT ![selected + 1] = Indefinite(old)]

\* the grid m with every committed tile taken back
Uncommitted(m) == [k \in 1..Len(m) |-> IF m[k].def THEN Indefinite(Domain) ELSE m[k]]

\* an Indefinite tile of m whose get_states is empty in m because of the Definite
\* tiles (it is not empty without them) and stays empty whatever Indefinite tile
\* is committed to whatever candidate of its own
Doomed(r, m, w, h) ==
    \E i \in 1..Len(m) :
        /\ ~m[i].def
        /\ GetStates(r, m, w, h, i - 1) = {}
        /\ GetStates(r, Uncommitted(m), w, h, i - 1) # {}
        /\ \A j \in 1..Len(m) : \A v \in m[j].states :
               GetStates(r, Commit(m, j - 1, v), w, h, i - 1) = {}

\* C4: a step() on a grid with a tile that has no legal value because of the
\* Definite tiles alone reports stuck and leaves the grid as it was.
C4_DoomedGridReportsStuck ==
    (Stepped /\ Doomed(rules, preMap, width, height)) =>
        (ret = "None" /\ exit = "stuck" /\ map = preMap)

SameRow(w, i, j) == (i - 1) \div w = (j - 1) \div w
SameCol(w, i, j) == (i - 1) % w = (j - 1) % w
SameBlock(w, i, j) ==
    /\ ((i - 1) % w) \div BlockW = ((j - 1) % w) \div BlockW
    /\ ((i - 1) \div w) \div BlockH = ((j - 1) \div w) \div BlockH

\* no two Definite tiles of a row, a column or a block hold the same value
Unique(m, w) ==
    \A i \in 1..Len(m), j \in 1..Len(m) :
        (i # j /\ m[i].def /\ m[j].def /\ m[i].val = m[j].val) =>
            ~(SameRow(w, i, j) \/ SameCol(w, i, j) \/ SameBlock(w, i, j))

\* C5: with the uniqueness rule set and a seed grid whose Definite tiles satisfy
\* uniqueness, a step() that reports solved leaves every tile Definite and no
\* value twice in a row, a column or a block.
C5_SolvedGridIsUnique ==
    (rules.kind = "sudoku" /\ Unique(args.tiles, width) /\ exit = "solved") =>
        (AllDefinite(map) /\ Unique(map, width))

\* C6: the driver loop on a valid seed grid ends with a signal: when step()
\* can be called no more, a step() has returned None as solved or stuck (the
\* part of termination that a finite run refutes).
C6_DriverEndsWithSignal ==
    (phase = "panicked" /\ Unique(args.tiles, width)) => returned # {}

\* the tiles propagation turned from Indefinite into Definite in the last step()
PropagatedDefinite ==
    {i \in 1..Len(map) : ~preMap[i].def /\ map[i].def /\ i - 1 # selected}

\* C7 as stated: after a step() that returned Some, every tile that propagation
\* made Definite has exactly one legal value in the grid as it is after the step.
C7_OneLegalValueAfterStep ==
    ret = "Some" =>
        \A i \in PropagatedDefinite :
            Cardinality(GetStates(rules, map, width, height, i - 1)) = 1

\* C7 amended: after a step() that returned Some, every tile that propagation
\* made Definite holds the one value get_states returned for it in the grid
\* as it was right after the commit of the selected tile.
C7_OneLegalValueAfterCommit ==
    ret = "Some" =>
        \A i \in PropagatedDefinite :
            GetStates(rules, Commit(preMap, selected, tried), width, height, i - 1)
                = {map[i].val}

C7_Witness == ret = "Some" /\ PropagatedDefinite # {}

\* C8: step() on a grid of Definite tiles reports solved, leaves the grid, the
\* width and the height as they were and calls get_states nowhere.
C8_AllDefiniteIsSolved ==
    (Stepped /\ AllDefinite(preMap)) =>
        /\ ret = "None"
        /\ exit = "solved"
        /\ map = preMap
        /\ width = args.width
        /\ height = args.height
        /\ queried = <<>>

C8_Witness == Stepped /\ AllDefinite(preMap) /\ Len(preMap) = MaxCells

\* C9: new() fails exactly when width = 0, height = 0 or the number of tiles is
\* not width * height; after it the width and the height keep the values they
\* were built with and the grid holds width * height tiles.
C9_ConstructionAndShape ==
    /\ phase # "init" =>
        (phase = "rejected" <=>
            (args.width = 0 \/ args.height = 0
             \/ Len(args.tiles) # args.width * args.height))
    /\ phase \in {"ready", "panicked"} =>
        (width = args.width /\ height = args.height /\ Len(map) = width * height)

C9_Witness ==
    /\ ret = "Some"
    /\ map # preMap
    /\ width = MaxDim
    /\ height = MaxDim
    /\ Len(map) = width * height

\* C10: row(i) yields the width tiles of row i in index order, col(j) the
\* height tiles of column j in row order.
C10_RowAndColYield ==
    /\ (viewCall.op = "row" /\ viewCall.arg < height) =>
        /\ viewOut.fail = ""
        /\ viewOut.tiles = SubSeq(map, viewCall.arg * width + 1,
                                  viewCall.arg * width + width)
    /\ (viewCall.op = "col" /\ viewCall.arg < width) =>
        /\ viewOut.fail = ""
        /\ viewOut.tiles = [r \in 1..height |-> map[(r - 1) * width + viewCall.arg + 1]]

\* the grid indices (from 0) of the Indefinite tiles of m
IndefiniteCells(m) == {i \in 0..(Len(m) - 1) : ~m[i + 1].def}

\* the grid index of the k-th Indefinite tile of m, k counted from 0
KthIndefinite(m, k) ==
    CHOOSE i \in IndefiniteCells(m) :
        Cardinality({j \in IndefiniteCells(m) : j < i}) = k

\* the cells whose scores make up the slice step() draws from
PoolCells(r, m) ==
    LET pool == Pool(EntropyMap(r, m))
    IN  {KthIndefinite(m, pool[n][1]) : n \in 1..Len(pool)}

\* the Indefinite cells of m whose score is the least one
MinScoreCells(r, m) ==
    {i \in IndefiniteCells(m) :
        \A j \in IndefiniteCells(m) : Entropy(r, m[i + 1]) <= Entropy(r, m[j + 1])}

\* C14: in every step() on a grid with an Indefinite cell the slice the cell
\* is drawn from is exactly the set of Indefinite cells of least score, it
\* is not empty, and the cell selected for collapse belongs to it.
C14_PoolIsLeastScoreCells ==
    (Stepped /\ ~AllDefinite(preMap)) =>
        /\ PoolCells(rules, preMap) = MinScoreCells(rules, preMap)
        /\ PoolCells(rules, preMap) # {}
        /\ selected \in PoolCells(rules, preMap)

\* the last step() committed a value to a cell
Committed == exit \in {"ok", "rollback", "stuck"}

\* the grid right after the commit of the last step()
CommittedGrid == Commit(preMap, selected, tried)

C16_PropagationCoversIndefinite ==
    exit = "ok" =>
        /\ {queried[k] : k \in 1..Len(queried)} = IndefiniteCells(preMap) \ {selected}
        /\ \A i \in IndefiniteCells(preMap) \ {selected} :
              LET S == GetStates(rules, CommittedGrid, width, height, i)
              IN  /\ Cardinality(S) = 1 => map[i + 1] = Definite(CHOOSE v \in S : TRUE)
                  /\ Cardinality(S) > 1 => map[i + 1] = Indefinite(S)
        /\ \A i \in 0..(Len(preMap) - 1) :
              preMap[i + 1].def =>
                  /\ \A k \in 1..Len(queried) : queried[k] # i
                  /\ map[i + 1] = preMap[i + 1]
        /\ ret = "Some"

\* C17: a cell Indefinite before and after a step() has, after the step, a
\* candidate set that is a subset of the one it had before.
C17_CandidatesOnlyShrink ==
    Stepped =>
        \A i \in 1..Len(map) :
            (~preMap[i].def /\ ~map[i].def) => map[i].states \subseteq preMap[i].states

\* C18: once value v was rolled back at cell c, v is never again a candidate
\* of c and c is never Definite(v).
C18_RolledBackValueStaysOut ==
    \A p \in excluded :
        /\ map[p[1] + 1] # Definite(p[2])
        /\ ~map[p[1] + 1].def => p[2] \notin map[p[1] + 1].states

\* C19: every get_states call of a step() reads the grid as it was before
\* the step with only the selected cell replaced by its committed Definite
\* value; nothing is written between the commit and the last query.
C19_QueriesReadCommittedGrid ==
    Committed => observed \subseteq {CommittedGrid}

C19_Witness ==
    /\ exit = "ok"
    /\ Len(queried) >= 2
    /\ observed # {}
    /\ \E i \in 1..Len(map) : i - 1 # selected /\ map[i] # preMap[i]

\* the last call built a span
SpanHeld == viewCall.op \in {"span", "row_span", "col_span"} /\ viewOut.fail = ""

\* the columns and the rows the last call asked for
CallCols ==
    IF viewCall.op = "col_span" THEN <<viewCall.at, viewCall.at + 1>>
    ELSE <<viewCall.x0, viewCall.x1>>

CallRows ==
    IF viewCall.op = "row_span" THEN <<viewCall.at, viewCall.at + 1>>
    ELSE <<viewCall.y0, viewCall.y1>>

NumCols == CallCols[2] - CallCols[1]

NumRows == CallRows[2] - CallRows[1]

\* the grid tile at column x of row y
TileAt(x, y) == map[y * width + x + 1]

\* the tiles of the window by direct indexing, row by row and column by column
RowMajor ==
    [k \in 1..(NumCols * NumRows) |->
        TileAt(CallCols[1] + ((k - 1) % NumCols), CallRows[1] + ((k - 1) \div NumCols))]

ColMajor ==
    [k \in 1..(NumCols * NumRows) |->
        TileAt(CallCols[1] + ((k - 1) \div NumRows), CallRows[1] + ((k - 1) % NumRows))]

IsPrefix(s, t) == Len(s) <= Len(t) /\ s = SubSeq(t, 1, Len(s))

\* C11: on every span that span, row_span or col_span returned, row_iter()
\* yields the tiles of the window row by row, each the grid tile at
\* y * width + x, columns * rows of them, then None; a row_iter() made after
\* it yields the same sequence.
C11_RowIterIsRowMajor ==
    SpanHeld =>
        /\ viewOut.it = "row" =>
              /\ ~viewOut.panic
              /\ IsPrefix(viewOut.tiles, RowMajor)
              /\ viewOut.nones >= 1 =>
                    /\ viewOut.tiles = RowMajor
                    /\ Len(viewOut.tiles) = NumCols * NumRows
        /\ viewOut.prev.it = "row" => viewOut.prev.tiles = RowMajor

C11_Witness ==
    /\ viewCall.op = "span"
    /\ NumCols >= 2
    /\ NumRows >= 2
    /\ viewOut.prev.it = "row"
    /\ viewOut.it = "row"
    /\ viewOut.nones = MaxNones
    /\ Len(viewOut.tiles) = NumCols * NumRows

\* C12: on every span that span returned, col_iter() yields the tiles of
\* the window column by column, then None, and every later next() returns
\* None as well and does not fail.
C12_ColIterIsColumnMajor ==
    (viewCall.op = "span" /\ viewOut.fail = "" /\ viewOut.it = "col") =>
        /\ ~viewOut.panic
        /\ IsPrefix(viewOut.tiles, ColMajor)
        /\ viewOut.nones >= 1 => viewOut.tiles = ColMajor

\* C13: span, row_span and col_span return the window for every non-empty
\* range inside the grid, x.end = width and y.end = height included, and
\* fail their precondition exactly when a range is empty or reaches past
\* the grid or the fixed row or column is outside the grid.
C13_SpansAcceptRangesInGrid ==
    viewCall.op \in {"span", "row_span", "col_span"} =>
        /\ viewOut.fail \in {"", "assert"}
        /\ viewOut.fail = "" <=>
              /\ CallCols[1] < CallCols[2]
              /\ CallCols[2] <= width
              /\ CallRows[1] < CallRows[2]
              /\ CallRows[2] <= height
        /\ viewOut.fail = "" =>
              viewOut.span = [r \in 1..NumRows |->
                                [c \in 1..NumCols |->
                                    TileAt(CallCols[1] + c - 1, CallRows[1] + r - 1)]]

\* C20: view(idx) has the position (idx % width, idx / width) and get() on it
\* returns the grid tile at idx, without an index out of range.
C20_GetReturnsOwnTile ==
    viewCall.op = "get" =>
        /\ viewOut.pos = <<viewCall.at % width, viewCall.at \div width>>
        /\ viewOut.fail = ""
        /\ viewOut.tiles = <<map[viewCall.at + 1]>>

\* every Indefinite tile the grid was built with has a candidate
SeedHasCandidates ==
    \A i \in 1..Len(args.tiles) : ~args.tiles[i].def => args.tiles[i].states # {}

\* C21: on a grid built by new() whose Indefinite tiles all have a
\* candidate, no sequence of step() calls panics: not in as_indefinite on a
\* Definite tile, not on an empty slice to choose from, not on an empty
\* random range.
C21_StepNeverPanics ==
    (phase \in {"ready", "panicked"} /\ SeedHasCandidates) =>
        /\ phase # "panicked"
        /\ exit \notin {"as_indefinite", "expect", "gen_range"}

====
